---- MODULE Spec2Model ----
(***************************************************************************)
(* SpaceNavigator: the satellite globe session (SatelliteGlobe.svelte with *)
(* SatelliteFilter.svelte and satellite-info.ts) as a state machine.       *)
(*                                                                         *)
(* Numbers.  Opacities are fixed-point: OpScale stands for 1.0, so the     *)
(* hide threshold 0.01 is OpScale / 100.  Mean motion is in 1e-6 rad/min,  *)
(* eccentricity in 1e-4, inclination in 1e-4 rad.                          *)
(***************************************************************************)
EXTENDS Integers, Sequences, FiniteSets, TLC

\* ------------------------------------------------------------------ bounds

\* Ticks a session of the full specification runs (the first one inside init).
MaxTicks == 3
\* Filter-change events a session receives.
MaxFilterChanges == 1
\* Times the host may invoke the cleanup function.
MaxTeardowns == 2
\* Filter-change events a session of SpecFade receives.
MaxFades == 2
\* Pieces (groups, fragments, stray lines) a parsed text is made of.
MaxPieces == 3
\* The largest count parseFirstNTleData is called with.
MaxCount == 2
\* Groups the upstream feed of the /api/tle handler holds.
MaxUpstream == 52

\* --------------------------------------------------------- program constants

OpScale == 100000
DEFAULT_COLOR_ISS == 16755200
DEFAULT_COLOR_OTHER == 43775
HAZARD_COLOR == 16711935
REAL_EARTH_RADIUS_KM == 6371
TARGET_SATELLITE_COUNT == 500
minutesBefore == 45
minutesAfter == 45
stepSeconds == 60

OrbitFilters == {"ALL", "LEO", "MEO", "GEO", "HEO", "SSO", "OTHER"}
TypeFilters == {"ALL", "ISS", "OBSERVATION", "CAMERA"}
RiskLevels == {"None", "Low", "Moderate", "High", "Severe", "Extreme"}

\* ----------------------------------------------------------- satellite-info

UnknownDetails == [type |-> "Unknown", hasCamera |-> FALSE]

knownSatellites ==
  [id \in {"25544", "20580", "56147", "43689", "48274"} |->
     CASE id = "25544" -> [type |-> "ISS", hasCamera |-> TRUE]
       [] id = "20580" -> [type |-> "Telescope", hasCamera |-> TRUE]
       [] id = "56147" -> [type |-> "Earth Observation", hasCamera |-> TRUE]
       [] id = "43689" -> [type |-> "Earth Observation", hasCamera |-> TRUE]
       [] id = "48274" -> [type |-> "Weather", hasCamera |-> TRUE]]

getSatelliteDetails(noradId) ==
  IF noradId \in DOMAIN knownSatellites THEN knownSatellites[noradId]
  ELSE UnknownDetails

\* ------------------------------------------------------------ classifyOrbit

\* floor(cbrt(x)) by bisection: lo^3 <= x < hi^3.
RECURSIVE CbrtBetween(_, _, _)
CbrtBetween(lo, hi, x) ==
  IF hi - lo <= 1 THEN lo
  ELSE LET mid == (lo + hi) \div 2
       IN IF mid * mid * mid <= x THEN CbrtBetween(mid, hi, x)
          ELSE CbrtBetween(lo, mid, x)

\* 2*pi / no in hundredths of a minute (no in 1e-6 rad/min, no > 0).
PeriodMin100(no) == 628318531 \div no

\* cbrt(mu / n^2) - 6371 in km, n = no / 60 rad/s, mu = 398600.4418.
\* sqrt(mu * 3600 * 1e12 / 50^3) = 107143272, so (107143272 / no)^2 is
\* mu / n^2 in units of (50 km)^3 and its cube root the semi-major axis in
\* units of 50 km.
AltitudeKm(no) ==
  LET q == 107143272 \div no
      q2 == IF q > 40000 THEN 1600000000 ELSE q * q
  IN 50 * CbrtBetween(0, 1200, q2) - REAL_EARTH_RADIUS_KM

InclinationDeg100(inclo) == (inclo * 18000) \div 31416

Abs(x) == IF x < 0 THEN -x ELSE x

\* A classifier that tests the eccentricity last, to test C15 against.
classifyOrbitHeoLast(satrec) ==
  IF satrec.no <= 0 THEN "Unknown"
  ELSE LET period == PeriodMin100(satrec.no)
           alt == AltitudeKm(satrec.no)
           incl == InclinationDeg100(satrec.inclo)
       IN IF Abs(period - 143610) < 3000 /\ satrec.ecco < 1000 /\ incl < 500
            THEN "GEO"
          ELSE IF alt < 2000 /\ Abs(incl - 9800) < 500 THEN "SSO"
          ELSE IF alt < 2000 THEN "LEO"
          ELSE IF satrec.ecco > 2500 THEN "HEO"
          ELSE "MEO"

\* A classifier that tests LEO before SSO, to test C16 against.
classifyOrbitLeoFirst(satrec) ==
  IF satrec.no <= 0 THEN "Unknown"
  ELSE LET period == PeriodMin100(satrec.no)
           alt == AltitudeKm(satrec.no)
           incl == InclinationDeg100(satrec.inclo)
       IN IF satrec.ecco > 2500 THEN "HEO"
          ELSE IF Abs(period - 143610) < 3000 /\ satrec.ecco < 1000 /\ incl < 500
            THEN "GEO"
          ELSE IF alt < 2000 THEN "LEO"
          ELSE IF alt < 2000 /\ Abs(incl - 9800) < 500 THEN "SSO"
          ELSE "MEO"

classifyOrbit(satrec) ==
  IF satrec.no <= 0 THEN "Unknown"
  ELSE LET period == PeriodMin100(satrec.no)
           alt == AltitudeKm(satrec.no)
           incl == InclinationDeg100(satrec.inclo)
       IN IF satrec.ecco > 2500 THEN "HEO"
          ELSE IF Abs(period - 143610) < 3000 /\ satrec.ecco < 1000 /\ incl < 500
            THEN "GEO"
          ELSE IF alt < 2000 /\ Abs(incl - 9800) < 500 THEN "SSO"
          ELSE IF alt < 2000 THEN "LEO"
          ELSE IF alt >= 2000 /\ alt < 35700 THEN "MEO"
          ELSE IF alt >= 35700 THEN "MEO"
          ELSE "Unknown"

\* ------------------------------------------------------ parseFirstNTleData

\* A line is a sequence of characters; a text is the sequence of the lines
\* between its line breaks (the empty text is one empty line).
Digits == {"0", "1", "2", "3", "4", "5", "6", "7", "8", "9"}

RECURSIVE TrimLeft(_)
TrimLeft(l) == IF l # << >> /\ Head(l) = " " THEN TrimLeft(Tail(l)) ELSE l

RECURSIVE TrimRight(_)
TrimRight(l) ==
  IF l # << >> /\ l[Len(l)] = " " THEN TrimRight(SubSeq(l, 1, Len(l) - 1)) ELSE l

\* String.prototype.trim
Trim(l) == TrimRight(TrimLeft(l))

\* String.prototype.startsWith
StartsWith(l, prefix) ==
  Len(l) >= Len(prefix) /\ SubSeq(l, 1, Len(prefix)) = prefix

\* String.prototype.substring(from, to), 0-based, to exclusive.
Substring(l, from, to) ==
  SubSeq(l, from + 1, IF to < Len(l) THEN to ELSE Len(l))

\* A test that lets every character pass, to test C13 against.
IsDigitsAny(l) == TRUE

\* /^\d+$/ on a non-empty string
IsDigits(l) == \A k \in DOMAIN l : l[k] \in Digits

\* tleText.trim().split(/\r?\n/): the blank lines at either end go, the
\* first line left loses its leading and the last its trailing blanks; a
\* text of blanks only is one empty line.
TrimSplit(text) ==
  LET full == {k \in DOMAIN text : Trim(text[k]) # << >>}
  IN IF full = {} THEN << << >> >>
     ELSE LET first == CHOOSE k \in full : \A m \in full : k <= m
              last == CHOOSE k \in full : \A m \in full : m <= k
          IN [k \in 1..(last - first + 1) |->
                LET l == text[first + k - 1]
                    l1 == IF k = 1 THEN TrimLeft(l) ELSE l
                IN IF first + k - 1 = last THEN TrimRight(l1) ELSE l1]

\* line1.substring(2, 7).trim()
NoradIdFromLine1(line1) == Trim(Substring(line1, 2, 7))

\* The validity checks of a block, on its trimmed lines.
ValidBlock(nameLine, line1, line2) ==
  /\ nameLine # << >> /\ line1 # << >> /\ line2 # << >>
  /\ StartsWith(line1, <<"1", " ">>)
  /\ StartsWith(line2, <<"2", " ">>)
  /\ Len(NoradIdFromLine1(line1)) > 0
  /\ IsDigits(NoradIdFromLine1(line1))

TleData(nameLine, line1, line2) ==
  [name |-> nameLine, tle1 |-> line1, tle2 |-> line2,
   noradId |-> NoradIdFromLine1(line1)]

\* A push at the front, to test C12 against.
PushFront(satellites, r) == <<r>> \o satellites

\* satellites.push(r)
Push(satellites, r) == Append(satellites, r)

\* The block at 0-based index i of the lines, trimmed.
BlockAt(lines, i) ==
  [nameLine |-> Trim(lines[i + 1]), line1 |-> Trim(lines[i + 2]),
   line2 |-> Trim(lines[i + 3])]

\* One pass of the for loop without the count check, to test C11 against.
ParseBodyNoCap(p) ==
  IF ~(p.i + 2 < Len(p.lines)) THEN [p EXCEPT !.at = "done"]
  ELSE LET b == BlockAt(p.lines, p.i)
       IN [p EXCEPT !.i = @ + 3,
                    !.examined = Append(@, p.i),
                    !.satellites =
                       IF ValidBlock(b.nameLine, b.line1, b.line2)
                         THEN Push(@, TleData(b.nameLine, b.line1, b.line2))
                         ELSE @]

\* One pass of the for loop: the loop condition, the count check and break,
\* the block's checks and the push, the increment.
ParseBody(p) ==
  IF ~(p.i + 2 < Len(p.lines)) THEN [p EXCEPT !.at = "done"]
  ELSE IF Len(p.satellites) >= p.count THEN [p EXCEPT !.at = "done"]
  ELSE LET b == BlockAt(p.lines, p.i)
       IN [p EXCEPT !.i = @ + 3,
                    !.examined = Append(@, p.i),
                    !.satellites =
                       IF ValidBlock(b.nameLine, b.line1, b.line2)
                         THEN Push(@, TleData(b.nameLine, b.line1, b.line2))
                         ELSE @]

\* The pieces a text is put together from: 3-line groups, good and bad, a
\* 2-line fragment, a stray line, a blank line.
GroupIss ==
  << <<"I", "S", "S">>,
     <<"1", " ", "2", "5", "5", "4", "4", "U">>,
     <<"2", " ", "2", "5", "5", "4", "4">> >>
GroupHst ==
  << <<"H", "S", "T">>,
     <<"1", " ", "2", "0", "5", "8", "0", "U">>,
     <<"2", " ", "2", "0", "5", "8", "0">> >>
GroupIndented ==
  << <<" ", "S", "E", "S", " ">>,
     <<" ", "1", " ", "2", "6", "4", "0", "7", "U", " ">>,
     <<" ", "2", " ", "2", "6", "4", "0", "7", " ">> >>
GroupPadded ==
  << <<"O", "B", "J">>,
     <<"1", " ", " ", " ", "1", "2", "3", "U">>,
     <<"2", " ", " ", " ", "1", "2", "3">> >>
GroupShort ==
  << <<"X">>, <<"1", " ", "2", "5">>, <<"2", " ", "2", "5">> >>
GroupAlpha ==
  << <<"Y">>,
     <<"1", " ", "2", "5", "5", "4", "A", "U">>,
     <<"2", " ", "2", "5", "5", "4", "A">> >>
GroupNoPrefix ==
  << <<"Z">>,
     <<"1", "2", "5", "5", "4", "4", "U">>,
     <<"2", " ", "2", "5", "5", "4", "4">> >>
GroupBlankName ==
  << <<" ">>,
     <<"1", " ", "2", "5", "5", "4", "4", "U">>,
     <<"2", " ", "2", "5", "5", "4", "4">> >>
Fragment ==
  << <<"H", "S", "T">>, <<"1", " ", "2", "0", "5", "8", "0", "U">> >>
Stray == << <<"D", "E", "B">> >>
BlankLine == << << >> >>

Pieces ==
  {GroupIss, GroupHst, GroupIndented, GroupPadded, GroupShort, GroupAlpha,
   GroupNoPrefix, GroupBlankName, Fragment, Stray, BlankLine}

RECURSIVE Flatten(_)
Flatten(pieces) ==
  IF pieces = << >> THEN << >> ELSE Head(pieces) \o Flatten(Tail(pieces))

\* The text made of the pieces, one line after the other.
TextOf(pieces) == IF Flatten(pieces) = << >> THEN << << >> >> ELSE Flatten(pieces)

\* ------------------------------------------------- the fetched element sets

\* An entry of the /api/tle response.  wellFormed is FALSE for an entry that
\* init's guard skips (a missing or non-string field).  satrec is what
\* twoline2satrec makes of tle1/tle2; trackOk is the number of the 91 track
\* instants at which the propagator yields a position for it.
Tle(name, satnum, no, ecco, inclo, trackOk) ==
  [name |-> name, wellFormed |-> TRUE, trackOk |-> trackOk,
   satrec |-> [satnum |-> satnum, no |-> no, ecco |-> ecco, inclo |-> inclo]]

TleIss == Tle("ISS (ZARYA)", "25544", 67632, 5, 9013, 91)
TleMolniya == Tle("MOLNIYA 1-91", "25485", 8753, 7000, 11065, 91)
TleLandsat == Tle("LANDSAT 9", "56147", 63573, 1, 17139, 91)
TleGoes == Tle("GOES 16", "41866", 4375, 1, 5, 1)
TleHst == Tle("HST", "20580", 65843, 3, 4969, 91)
TleNavstar == Tle("NAVSTAR 81", "48859", 8752, 100, 9599, 0)
TleSwisscube == Tle("SWISSCUBE", "35932", 63467, 8, 17209, 91)
TleDegenerate == Tle("OBJECT A", "99999", 0, 0, 0, 0)
TleBad == [name |-> "BAD", wellFormed |-> FALSE, trackOk |-> 0,
           satrec |-> [satnum |-> "", no |-> 0, ecco |-> 0, inclo |-> 0]]

\* The responses the fetch may resolve with.
Feeds ==
  { << >>,
    <<TleIss, TleMolniya>>,
    <<TleLandsat, TleGoes>>,
    <<TleHst, TleNavstar>>,
    <<TleBad, TleDegenerate>>,
    <<TleIss, TleIss>> }

\* ----------------------------------------------------------------- filters

\* THREE.MathUtils.lerp(x, y, t) = (1 - t) * x + t * y with t = 0.1, rounded
\* to the nearest fixed-point unit.
\* A smoothing step of factor 0.05, to test C7 against.
LerpSlow(x, y) == (19 * x + y + 10) \div 20

Lerp(x, y) == (9 * x + y + 5) \div 10

\* The hide threshold 0.01.
\* A hide threshold of 0.001, to test C8 against.
HideThresholdTight == OpScale \div 1000

HideThreshold == OpScale \div 100

\* OrbitMatch without the OTHER branch, to test C2 against.
OrbitMatchNoOther(sat, orbitF) ==
  orbitF = "ALL" \/ sat.orbitType = orbitF

OrbitMatch(sat, orbitF) ==
  IF orbitF = "ALL" THEN TRUE
  ELSE IF orbitF = "OTHER" THEN sat.orbitType = "Unknown"
  ELSE sat.orbitType = orbitF

TypeMatch(sat, typeF) ==
  IF typeF = "ALL" THEN TRUE
  ELSE IF typeF = "ISS" THEN sat.details.type = "ISS"
  ELSE IF typeF = "OBSERVATION" THEN sat.details.type = "Earth Observation"
  ELSE IF typeF = "CAMERA" THEN sat.details.hasCamera
  ELSE FALSE

\* One entity's pass through the forEach body of applyFilters.
FilterOne(sat, orbitF, typeF) ==
  LET vis == OrbitMatch(sat, orbitF) /\ TypeMatch(sat, typeF)
      op == Lerp(sat.opacity, IF vis THEN OpScale ELSE 0)
      top == Lerp(sat.trackOpacity, IF vis THEN (4 * OpScale) \div 10 ELSE 0)
  IN [sat EXCEPT !.isVisible = vis,
                 !.opacity = op,
                 !.meshVisible = op > HideThreshold,
                 !.trackOpacity = IF sat.hasTrack THEN top ELSE @,
                 !.trackVisible = IF sat.hasTrack THEN top > HideThreshold ELSE @]

applyFilters(satellites, orbitF, typeF) ==
  [i \in DOMAIN satellites |-> FilterOne(satellites[i], orbitF, typeF)]

\* -------------------------------------------------------------------- state

VARIABLES
  isLoadingTLE,            \* component state, part_007:47-53
  tleError,
  hoveredSatelliteName,
  labelInfo,
  currentOrbitFilter,
  currentTypeFilter,
  radiationRiskLevel,      \* the prop
  localSatelliteObjects,   \* the registry, a sequence of SatelliteObject
  isMounted,               \* onMount's locals, part_007:314-320
  animationFrameId,
  rendererInstance,
  sceneInstance,
  cameraInstance,
  controlsInstance,
  fetchPending,            \* the /api/tle request is in flight
  fetchedTLEs,             \* what loadTLEData gave init: pending, threw, empty, list
  frameQueue,              \* frame callbacks the browser holds for animate
  listening,               \* the pointer listeners are attached
  pc,                      \* where the running tick is: idle, filtered, propagated
  inInit,                  \* the running tick is the one init started
  emitted,                 \* satelliteclick events dispatched by the last step
  cleanupLog,              \* cancellations and disposals, in the order made
  created,                 \* history: rendering resources created
  ticks,                   \* history: ticks started (saturates at MaxTicks)
  filterChanges,           \* history: filter-change events handled
  teardowns,               \* history: cleanup invocations
  stableTicks,             \* history: ticks since the filters last changed
  decayReported,           \* history: entities whose propagation reported decay
  errorReported,           \* history: entities whose propagation threw another error
  smooth,                  \* the opacity under test in SpecSmooth
  parse,                   \* the run of parseFirstNTleData in SpecParse
  classified,              \* the element set under test in SpecClassify
  trackRun,                \* the run of calculateTrackPoints in SpecTrack
  weather,                 \* the run of the /api/space-weather handler in SpecWeather
  lastOutcome,             \* history: what propagation did in the current tick
  lastPick                 \* history: the last step's pointer pick

vars ==
  <<isLoadingTLE, tleError, hoveredSatelliteName, labelInfo, currentOrbitFilter,
    currentTypeFilter, radiationRiskLevel, localSatelliteObjects, isMounted,
    animationFrameId, rendererInstance, sceneInstance, cameraInstance,
    controlsInstance, fetchPending, fetchedTLEs, frameQueue, listening, pc,
    inInit, emitted, cleanupLog, created, ticks, filterChanges, teardowns,
    stableTicks, decayReported, errorReported, smooth, parse, classified,
    trackRun, weather, lastOutcome, lastPick>>

compVars ==
  <<isLoadingTLE, tleError, hoveredSatelliteName, labelInfo, currentOrbitFilter,
    currentTypeFilter, radiationRiskLevel>>
mountVars ==
  <<isMounted, animationFrameId, rendererInstance, sceneInstance, cameraInstance,
    controlsInstance, listening>>
pureVars == <<smooth, parse, classified, trackRun, weather>>
failVars == <<decayReported, errorReported, fetchedTLEs, pureVars>>
histVars == <<created, ticks, filterChanges, teardowns, stableTicks, failVars>>

NoPick == [op |-> "none", ray |-> << >>, hit |-> 0]

\* labelInfo = null; a label is its name and the entity whose projected
\* position it is placed at.  sceneInstance = null is the empty sequence.
NoLabel == [name |-> "null", at |-> 0]
NullScene == << >>

\* Ticks after which a fade is over: 0.9^44 < 0.01 <= 0.9^43.
FadeTicks == 44

\* The state when onMount has returned: init() has issued the fetch and is
\* suspended on it; the prop has its default, and SetRisk is the page
\* passing another level.
\* The component as constructed: loading, both filters ALL, nothing created.
ComponentInit ==
  /\ isLoadingTLE = TRUE
  /\ tleError = "null"
  /\ hoveredSatelliteName = "null"
  /\ labelInfo = NoLabel
  /\ currentOrbitFilter = "ALL"
  /\ currentTypeFilter = "ALL"
  /\ radiationRiskLevel = "None"
  /\ localSatelliteObjects = << >>
  /\ isMounted = TRUE
  /\ animationFrameId = 0
  /\ rendererInstance = "null"
  /\ sceneInstance = NullScene
  /\ cameraInstance = "null"
  /\ controlsInstance = "null"
  /\ fetchPending = TRUE
  /\ fetchedTLEs = "pending"
  /\ frameQueue = 0
  /\ listening = FALSE
  /\ pc = "idle"
  /\ inInit = FALSE
  /\ emitted = << >>
  /\ cleanupLog = << >>
  /\ created = {}
  /\ ticks = 0
  /\ filterChanges = 0
  /\ teardowns = 0
  /\ stableTicks = 0
  /\ decayReported = {}
  /\ errorReported = {}
  /\ lastOutcome = << >>
  /\ lastPick = NoPick

\* No parser run and no classification under test.
NoParse ==
  [text |-> << >>, pieces |-> << >>, count |-> 0, lines |-> << >>, i |-> 0,
   satellites |-> << >>, examined |-> << >>, at |-> "none"]
NoWeather ==
  [gst |-> "absent", flr |-> "absent", sep |-> "absent", cme |-> "absent",
   geoActivityLevel |-> "Low", radioBlackoutLevel |-> "None",
   radiationStormLevel |-> "None", auroraPossibility |-> "Low",
   satelliteRisk |-> "Low", cmeRisk |-> "Low", at |-> "none"]
NoTrack == [outcomes |-> << >>, i |-> 0, points |-> << >>, at |-> "none"]
NoClassified == [satrec |-> [no |-> 0, ecco |-> 0, inclo |-> 0], result |-> "none"]

\* A marker is created opaque (opacity: 1) and visible.
Init ==
  /\ ComponentInit
  /\ smooth = [opacity |-> OpScale, from |-> OpScale, target |-> OpScale, n |-> 0]
  /\ parse = NoParse
  /\ classified = NoClassified
  /\ trackRun = NoTrack
  /\ weather = NoWeather

\* --------------------------------------------------------------------- init

\* tle.name.includes('ISS') over the names of the catalogue.
NameIncludesISS(name) == name \in {"ISS (ZARYA)", "SWISSCUBE"}

\* The number of points calculateTrackPoints returns: one per track instant at
\* which propagation yields a position.
calculateTrackPoints(tle) == tle.trackOk

\* The SatelliteObject the forEach body of init pushes for one entry, with the
\* state of its mesh, material and track line.
NewSatellite(tle) ==
  LET satColor == IF NameIncludesISS(tle.name) THEN DEFAULT_COLOR_ISS
                  ELSE DEFAULT_COLOR_OTHER
      track == calculateTrackPoints(tle) > 1
  IN [name |-> tle.name,
      satrec |-> tle.satrec,
      defaultColor |-> satColor,
      hasTrack |-> track,
      details |-> getSatelliteDetails(tle.satrec.satnum),
      orbitType |-> classifyOrbit(tle.satrec),
      isVisible |-> TRUE,
      meshVisible |-> TRUE,
      opacity |-> OpScale,
      color |-> satColor,
      trackVisible |-> track,
      trackOpacity |-> IF track THEN (4 * OpScale) \div 10 ELSE 0,
      currentLat |-> "undefined"]

IsWellFormed(tle) == tle.wellFormed

BuildObjects(feed) ==
  LET ok == SelectSeq(feed, IsWellFormed)
  IN [i \in DOMAIN ok |-> NewSatellite(ok[i])]

NoRes == <<"none", 0>>
SceneObject(g, m, t) == [geometry |-> g, material |-> m, map |-> t]

\* The objects of the scene in the order init adds them: the two lights, the
\* Earth mesh, then per entity its track line (when it has one) and its marker.
RECURSIVE SatSceneObjects(_, _)
SatSceneObjects(objs, i) ==
  IF i > Len(objs) THEN << >>
  ELSE (IF objs[i].hasTrack
          THEN <<SceneObject(<<"trackGeometry", i>>, <<"trackMaterial", i>>, NoRes)>>
          ELSE << >>)
       \o <<SceneObject(<<"satGeometry", i>>, <<"satMaterial", i>>, NoRes)>>
       \o SatSceneObjects(objs, i + 1)

BuildScene(objs) ==
  <<SceneObject(NoRes, NoRes, NoRes), SceneObject(NoRes, NoRes, NoRes),
    SceneObject(<<"earthGeometry", 0>>, <<"earthMaterial", 0>>, <<"earthTexture", 0>>)>>
  \o SatSceneObjects(objs, 1)

SceneResources(scene) ==
  UNION {{scene[i].geometry, scene[i].material, scene[i].map} : i \in DOMAIN scene}
  \ {NoRes}

\* An init that calls animate() twice, each call requesting a frame, to test
\* C18 against.
AnimateHeadTwice ==
  /\ animationFrameId' = 1
  /\ frameQueue' = frameQueue + 2
  /\ pc' = "filtered"
  /\ ticks' = IF ticks < MaxTicks THEN ticks + 1 ELSE ticks
  /\ stableTicks' = IF stableTicks < FadeTicks THEN stableTicks + 1 ELSE stableTicks
  /\ emitted' = << >>
  /\ lastPick' = NoPick
  /\ lastOutcome' = << >>

\* animate() up to and including its applyFilters call: the guard, the
\* request for the next frame, the filter step.
AnimateHead ==
  /\ animationFrameId' = 1
  /\ frameQueue' = frameQueue + 1
  /\ pc' = "filtered"
  /\ ticks' = IF ticks < MaxTicks THEN ticks + 1 ELSE ticks
  /\ stableTicks' = IF stableTicks < FadeTicks THEN stableTicks + 1 ELSE stableTicks
  /\ emitted' = << >>
  /\ lastPick' = NoPick
  /\ lastOutcome' = << >>

\* The fetch resolved with a non-empty list while mounted: init builds the
\* scene and the registry, applies the filters, clears the loading flag and
\* calls animate(), whose filter step ends this action.
InitScene(feeds) ==
  /\ fetchPending /\ pc = "idle" /\ isMounted
  /\ \E feed \in feeds :
       /\ Len(feed) > 0
       /\ LET objs == BuildObjects(feed)
              scene == BuildScene(objs)
              first == applyFilters(objs, currentOrbitFilter, currentTypeFilter)
          IN /\ sceneInstance' = scene
             /\ created' = SceneResources(scene) \cup {<<"renderer", 0>>, <<"controls", 0>>}
             /\ localSatelliteObjects' =
                  applyFilters(first, currentOrbitFilter, currentTypeFilter)
  /\ fetchPending' = FALSE
  /\ fetchedTLEs' = "list"
  /\ cameraInstance' = "camera"
  /\ rendererInstance' = "renderer"
  /\ controlsInstance' = "controls"
  /\ isLoadingTLE' = FALSE
  /\ inInit' = TRUE
  /\ AnimateHead
  /\ UNCHANGED <<tleError, hoveredSatelliteName, labelInfo, currentOrbitFilter,
                 currentTypeFilter, radiationRiskLevel, isMounted, listening,
                 cleanupLog, filterChanges, teardowns, decayReported,
                 errorReported, pureVars>>

\* The fetch resolved with an empty list while mounted.
FetchEmpty(feeds) ==
  /\ fetchPending /\ pc = "idle" /\ isMounted
  /\ << >> \in feeds
  /\ fetchPending' = FALSE
  /\ fetchedTLEs' = "empty"
  /\ tleError' = "No satellite data available."
  /\ isLoadingTLE' = FALSE
  /\ emitted' = << >>
  /\ lastPick' = NoPick
  /\ UNCHANGED <<hoveredSatelliteName, labelInfo, currentOrbitFilter,
                 currentTypeFilter, radiationRiskLevel, localSatelliteObjects,
                 mountVars, frameQueue, pc, inInit, cleanupLog, created, ticks,
                 filterChanges, teardowns, stableTicks, decayReported,
                 errorReported, pureVars, lastOutcome>>

\* A loader that answers a failure by issuing the request again, to test C19
\* against.
FetchFailRetry ==
  /\ fetchPending /\ pc = "idle"
  /\ fetchPending' = TRUE
  /\ fetchedTLEs' = "threw"
  /\ tleError' = "null"
  /\ isLoadingTLE' = TRUE
  /\ emitted' = << >>
  /\ lastPick' = NoPick
  /\ UNCHANGED <<hoveredSatelliteName, labelInfo, currentOrbitFilter,
                 currentTypeFilter, radiationRiskLevel, localSatelliteObjects,
                 mountVars, frameQueue, pc, inInit, cleanupLog, created, ticks,
                 filterChanges, teardowns, stableTicks, decayReported,
                 errorReported, pureVars, lastOutcome>>

\* The fetch failed (network error, HTTP error, or a body that is no array):
\* loadTLEData records the message and rethrows, init's catch clears the flag.
FetchFail ==
  /\ fetchPending /\ pc = "idle"
  /\ fetchPending' = FALSE
  /\ fetchedTLEs' = "threw"
  /\ tleError' = "Failed to fetch TLE"
  /\ isLoadingTLE' = FALSE
  /\ emitted' = << >>
  /\ lastPick' = NoPick
  /\ UNCHANGED <<hoveredSatelliteName, labelInfo, currentOrbitFilter,
                 currentTypeFilter, radiationRiskLevel, localSatelliteObjects,
                 mountVars, frameQueue, pc, inInit, cleanupLog, created, ticks,
                 filterChanges, teardowns, stableTicks, decayReported,
                 errorReported, pureVars, lastOutcome>>

\* The fetch resolved, with a list or with an empty one, after the component
\* was unmounted: init returns at once.
FetchAfterUnmount ==
  /\ fetchPending /\ pc = "idle" /\ ~isMounted
  /\ fetchPending' = FALSE
  /\ \E data \in {"empty", "list"} : fetchedTLEs' = data
  /\ emitted' = << >>
  /\ lastPick' = NoPick
  /\ UNCHANGED <<compVars, localSatelliteObjects, mountVars, frameQueue, pc, inInit,
                 cleanupLog, created, ticks,
                 filterChanges, teardowns, stableTicks, decayReported,
                 errorReported, pureVars, lastOutcome>>

\* --------------------------------------------------------------------- tick

\* The browser runs a pending frame callback: animate() up to and including
\* its filter step.  bounded: the tick counts against MaxTicks.
AnimateFrame(bounded) ==
  /\ pc = "idle" /\ frameQueue > 0
  /\ bounded => ticks < MaxTicks
  /\ IF ~isMounted \/ rendererInstance = "null" \/ sceneInstance = NullScene
        \/ cameraInstance = "null"
       THEN /\ animationFrameId' = 0
            /\ frameQueue' = frameQueue - 1
            /\ emitted' = << >>
            /\ lastPick' = NoPick
            /\ UNCHANGED <<localSatelliteObjects, pc, ticks, stableTicks, lastOutcome>>
       ELSE /\ animationFrameId' = 1
            /\ frameQueue' = (frameQueue - 1) + 1
            /\ pc' = "filtered"
            /\ ticks' = IF ticks < MaxTicks THEN ticks + 1 ELSE ticks
            /\ stableTicks' = IF stableTicks < FadeTicks THEN stableTicks + 1
                              ELSE stableTicks
            /\ emitted' = << >>
            /\ lastPick' = NoPick
            /\ lastOutcome' = << >>
            /\ localSatelliteObjects' =
                 applyFilters(localSatelliteObjects, currentOrbitFilter, currentTypeFilter)
  /\ UNCHANGED <<compVars, isMounted, rendererInstance, sceneInstance, cameraInstance,
                 controlsInstance, listening, fetchPending, inInit, cleanupLog,
                 created, filterChanges, teardowns, failVars>>

Outcomes == {"ok_low", "ok_high", "nopos", "decay", "error"}

IsHazardCondition(level) == level \in {"High", "Severe", "Extreme"}

\* A propagation step that hides every entity it visits, to test C10 against.
PropagateOneHideAll(sat, oc, level) ==
  [sat EXCEPT !.meshVisible = FALSE, !.trackVisible = FALSE, !.isVisible = FALSE]

\* The forEach body of updateSatellitePositions for one entity.  oc is what
\* the propagator does for it at this instant: a position at a latitude below
\* or above 50 degrees, no position, a thrown decay error, another thrown error.
PropagateOne(sat, oc, level) ==
  IF ~sat.isVisible \/ ~sat.meshVisible THEN sat
  ELSE IF oc = "nopos" THEN sat
  ELSE IF oc \in {"ok_low", "ok_high"}
    THEN [sat EXCEPT !.currentLat = IF oc = "ok_high" THEN "high" ELSE "low",
                     !.color = IF IsHazardCondition(level) /\ oc = "ok_high"
                               THEN HAZARD_COLOR ELSE sat.defaultColor]
  ELSE [sat EXCEPT !.meshVisible = FALSE,
                   !.trackVisible = FALSE,
                   !.isVisible = FALSE]

updateSatellitePositions(satellites, oc, level) ==
  [i \in DOMAIN satellites |-> PropagateOne(satellites[i], oc[i], level)]

\* The propagation step of the running tick.
TickPropagate(outcomes) ==
  /\ pc = "filtered"
  /\ \E oc \in [DOMAIN localSatelliteObjects -> outcomes \cup {"skipped"}] :
       /\ \A i \in DOMAIN oc :
            (oc[i] = "skipped") <=>
              ~(localSatelliteObjects[i].isVisible /\ localSatelliteObjects[i].meshVisible)
       /\ localSatelliteObjects' =
            IF ~isMounted THEN localSatelliteObjects
            ELSE updateSatellitePositions(localSatelliteObjects, oc, radiationRiskLevel)
       /\ decayReported' = decayReported \cup {i \in DOMAIN oc : oc[i] = "decay"}
       /\ errorReported' = errorReported \cup {i \in DOMAIN oc : oc[i] = "error"}
       /\ lastOutcome' = oc
  /\ pc' = "propagated"
  /\ UNCHANGED <<compVars, mountVars, fetchPending, frameQueue, inInit, emitted,
                 cleanupLog, created, ticks, filterChanges, teardowns, stableTicks,
                 fetchedTLEs, pureVars, lastPick>>

\* localSatelliteObjects.find((s) => s.name === name): the first index, or 0.
FindByName(satellites, name) ==
  IF \E i \in DOMAIN satellites : satellites[i].name = name
    THEN CHOOSE i \in DOMAIN satellites :
           /\ satellites[i].name = name
           /\ \A j \in DOMAIN satellites : satellites[j].name = name => i <= j
    ELSE 0

\* The hover label animate() computes; inFront: the projected depth is < 1.
HoverLabel(satellites, hovered, inFront) ==
  IF hovered = "null" THEN NoLabel
  ELSE LET i == FindByName(satellites, hovered)
       IN IF i # 0 /\ satellites[i].isVisible /\ satellites[i].meshVisible /\ inFront
            THEN [name |-> hovered, at |-> i]
            ELSE NoLabel

\* The rest of the tick: the hover label and the render.  In the tick init
\* started, init then attaches the listeners and the component's reactive
\* statement re-applies the filters.
TickRender ==
  /\ pc = "propagated"
  /\ \E inFront \in BOOLEAN :
       labelInfo' = HoverLabel(localSatelliteObjects, hoveredSatelliteName, inFront)
  /\ pc' = "idle"
  /\ inInit' = FALSE
  /\ listening' = IF inInit THEN TRUE ELSE listening
  /\ localSatelliteObjects' =
       IF inInit /\ Len(localSatelliteObjects) > 0 /\ ~isLoadingTLE
         THEN applyFilters(localSatelliteObjects, currentOrbitFilter, currentTypeFilter)
         ELSE localSatelliteObjects
  /\ UNCHANGED <<isLoadingTLE, tleError, hoveredSatelliteName, currentOrbitFilter,
                 currentTypeFilter, radiationRiskLevel, isMounted, animationFrameId,
                 rendererInstance, sceneInstance, cameraInstance, controlsInstance,
                 fetchPending, frameQueue, emitted, cleanupLog, histVars, lastPick>>
  /\ lastOutcome' = << >>

\* ----------------------------------------------------------------- handlers

\* An event loop that lets a handler in at any point of a tick, to test C17
\* against.
HandlerMayRunAnywhere == TRUE

\* animate() is synchronous from its guard to its render call, so the event
\* loop dispatches an event handler only when no tick is executing.
HandlerMayRun == pc = "idle"

\* The filterchange event of SatelliteFilter, which fires when a selection
\* changed: the handler, then the reactive statement, which re-applies the
\* filters when there is a registry and loading is over.
handleFilterUpdateFromComponent(filters, max) ==
  /\ HandlerMayRun /\ isMounted
  /\ filterChanges < max
  /\ \E f \in filters :
       /\ f # <<currentOrbitFilter, currentTypeFilter>>
       /\ currentOrbitFilter' = f[1]
       /\ currentTypeFilter' = f[2]
       /\ localSatelliteObjects' =
            IF Len(localSatelliteObjects) > 0 /\ ~isLoadingTLE
              THEN applyFilters(localSatelliteObjects, f[1], f[2])
              ELSE localSatelliteObjects
  /\ hoveredSatelliteName' = "null"
  /\ labelInfo' = NoLabel
  /\ filterChanges' = filterChanges + 1
  /\ stableTicks' = 0
  /\ emitted' = << >>
  /\ lastPick' = NoPick
  /\ UNCHANGED <<isLoadingTLE, tleError, radiationRiskLevel, mountVars, fetchPending,
                 frameQueue, pc, inInit, cleanupLog, created, ticks, teardowns,
                 failVars, lastOutcome>>

\* The page passes a new radiationRiskLevel.
SetRisk ==
  /\ pc = "idle" /\ isMounted
  /\ \E level \in RiskLevels \ {radiationRiskLevel} : radiationRiskLevel' = level
  /\ emitted' = << >>
  /\ lastPick' = NoPick
  /\ UNCHANGED <<isLoadingTLE, tleError, hoveredSatelliteName, labelInfo,
                 currentOrbitFilter, currentTypeFilter, localSatelliteObjects,
                 mountVars, fetchPending, frameQueue, pc, inInit, cleanupLog,
                 histVars, lastOutcome>>

\* The markers a pointer ray passes through, nearest first.
Rays(satellites) ==
  {<< >>} \cup {<<i>> : i \in DOMAIN satellites}
  \cup {r \in {<<i, j>> : i, j \in DOMAIN satellites} : r[1] # r[2]}

\* raycaster.intersectObjects(localSatelliteMeshes.filter((m) => m.visible))[0]
\* resolved to its entity: the nearest marker of the ray whose mesh is visible,
\* or 0.
\* A pick over all the markers, hidden ones included, to test C3 against.
PickAny(satellites, ray) == IF ray = << >> THEN 0 ELSE Head(ray)

RECURSIVE Pick(_, _)
Pick(satellites, ray) ==
  IF ray = << >> THEN 0
  ELSE IF satellites[Head(ray)].meshVisible THEN Head(ray)
  ELSE Pick(satellites, Tail(ray))

onMouseMove ==
  /\ HandlerMayRun /\ listening
  /\ \E ray \in Rays(localSatelliteObjects) :
       IF ~isMounted \/ cameraInstance = "null"
         THEN /\ lastPick' = NoPick
              /\ UNCHANGED hoveredSatelliteName
         ELSE LET hit == Pick(localSatelliteObjects, ray)
              IN /\ hoveredSatelliteName' =
                      IF hit # 0 THEN localSatelliteObjects[hit].name ELSE "null"
                 /\ lastPick' = [op |-> "move", ray |-> ray, hit |-> hit]
  /\ emitted' = << >>
  /\ UNCHANGED <<isLoadingTLE, tleError, labelInfo, currentOrbitFilter,
                 currentTypeFilter, radiationRiskLevel, localSatelliteObjects,
                 mountVars, fetchPending, frameQueue, pc, inInit, cleanupLog,
                 histVars, lastOutcome>>

onMouseLeave ==
  /\ HandlerMayRun /\ listening
  /\ hoveredSatelliteName # "null" \/ labelInfo # NoLabel
  /\ hoveredSatelliteName' = "null"
  /\ labelInfo' = NoLabel
  /\ emitted' = << >>
  /\ lastPick' = NoPick
  /\ UNCHANGED <<isLoadingTLE, tleError, currentOrbitFilter, currentTypeFilter,
                 radiationRiskLevel, localSatelliteObjects, mountVars, fetchPending,
                 frameQueue, pc, inInit, cleanupLog, histVars, lastOutcome>>

\* A dispatch that always carries the first entity, to test C6 against.
ClickEventFirst(satellites, hit) ==
  IF hit # 0 THEN <<satellites[1]>> ELSE << >>

\* dispatch('satelliteclick', { ...clickedSat }) when a marker was hit.
ClickEvent(satellites, hit) ==
  IF hit # 0 THEN <<satellites[hit]>> ELSE << >>

onClick ==
  /\ HandlerMayRun /\ listening
  /\ \E ray \in Rays(localSatelliteObjects) :
       IF ~isMounted \/ cameraInstance = "null"
         THEN /\ lastPick' = NoPick
              /\ emitted' = << >>
         ELSE LET hit == Pick(localSatelliteObjects, ray)
              IN /\ emitted' = ClickEvent(localSatelliteObjects, hit)
                 /\ lastPick' = [op |-> "click", ray |-> ray, hit |-> hit]
  /\ UNCHANGED <<compVars, localSatelliteObjects, mountVars, fetchPending, frameQueue,
                 pc, inInit, cleanupLog, histVars, lastOutcome>>

\* ----------------------------------------------------------------- teardown

Cancel == <<"cancelAnimationFrame", 0>>

\* A disposeMaterial that forgets the texture, to test C5 against.
disposeMaterialNoMap(material, map) ==
  IF material = NoRes THEN << >> ELSE <<material>>

disposeMaterial(material, map) ==
  IF material = NoRes THEN << >>
  ELSE (IF map # NoRes THEN <<map>> ELSE << >>) \o <<material>>

disposeObject(obj) ==
  (IF obj.geometry # NoRes THEN <<obj.geometry>> ELSE << >>)
  \o disposeMaterial(obj.material, obj.map)

\* sceneInstance.traverse(disposeObject): the disposals in traversal order.
RECURSIVE TraverseDispose(_)
TraverseDispose(scene) ==
  IF scene = << >> THEN << >>
  ELSE disposeObject(Head(scene)) \o TraverseDispose(Tail(scene))

\* A cleanup that cancels the frame callback last, to test C4 against.
CleanupEffectsCancelLast ==
  (IF controlsInstance # "null" THEN <<<<"controls", 0>>>> ELSE << >>)
  \o (IF sceneInstance # NullScene THEN TraverseDispose(sceneInstance) ELSE << >>)
  \o (IF rendererInstance # "null" THEN <<<<"renderer", 0>>>> ELSE << >>)
  \o (IF animationFrameId # 0 THEN <<Cancel>> ELSE << >>)

\* What cleanup cancels and disposes, in the order of its statements.
CleanupEffects ==
  (IF animationFrameId # 0 THEN <<Cancel>> ELSE << >>)
  \o (IF controlsInstance # "null" THEN <<<<"controls", 0>>>> ELSE << >>)
  \o (IF sceneInstance # NullScene THEN TraverseDispose(sceneInstance) ELSE << >>)
  \o (IF rendererInstance # "null" THEN <<<<"renderer", 0>>>> ELSE << >>)

cleanup ==
  /\ pc = "idle"
  /\ teardowns < MaxTeardowns
  /\ teardowns' = teardowns + 1
  /\ isMounted' = FALSE
  /\ cleanupLog' = cleanupLog \o CleanupEffects
  /\ frameQueue' = IF animationFrameId # 0 /\ frameQueue > 0 THEN frameQueue - 1
                   ELSE frameQueue
  /\ listening' = FALSE
  /\ rendererInstance' = "null"
  /\ sceneInstance' = NullScene
  /\ cameraInstance' = "null"
  /\ controlsInstance' = "null"
  /\ localSatelliteObjects' = << >>
  /\ emitted' = << >>
  /\ lastPick' = NoPick
  /\ UNCHANGED <<compVars, animationFrameId, fetchPending, pc, inInit, created, ticks,
                 filterChanges, stableTicks, failVars, lastOutcome>>

\* ------------------------------------------------------------ specification

AllFilters == OrbitFilters \X TypeFilters

\* The session under filter changes and teardown: every feed, every filter
\* pair, every failure of the propagator, the fetch resolving or failing
\* before or after the unmount.
Next ==
  \/ InitScene(Feeds)
  \/ FetchEmpty(Feeds)
  \/ FetchFail
  \/ FetchAfterUnmount
  \/ AnimateFrame(TRUE)
  \/ TickPropagate({"ok_low", "nopos", "decay", "error"})
  \/ TickRender
  \/ handleFilterUpdateFromComponent(AllFilters, MaxFilterChanges)
  \/ cleanup

Spec == Init /\ [][Next]_vars

\* The session under changes of the radiation risk level.
RiskFeeds == {<<TleIss, TleMolniya>>}
RiskFilters == {<<"ALL", "ALL">>, <<"HEO", "ALL">>}

NextRisk ==
  \/ InitScene(RiskFeeds)
  \/ AnimateFrame(TRUE)
  \/ TickPropagate(Outcomes)
  \/ TickRender
  \/ handleFilterUpdateFromComponent(RiskFilters, MaxFilterChanges)
  \/ SetRisk

SpecRisk == Init /\ [][NextRisk]_vars

\* The session run for as long as a fade lasts: the ticks are not counted
\* against MaxTicks, the filters change up to MaxFades times.
FadeFeeds == {<<TleIss, TleMolniya>>}
FadeFilters == {<<"ALL", "ALL">>, <<"HEO", "ALL">>, <<"ALL", "ISS">>}

NextFade ==
  \/ InitScene(FadeFeeds)
  \/ AnimateFrame(FALSE)
  \/ TickPropagate({"ok_low", "error"})
  \/ TickRender
  \/ handleFilterUpdateFromComponent(FadeFilters, MaxFades)

SpecFade == Init /\ [][NextFade]_vars

\* The session on feeds that hold an object whose name contains "ISS" and
\* whose catalog ID is not that of the station.
ColorFeeds == {<<TleIss, TleSwisscube>>, <<TleSwisscube, TleHst>>}

NextColor ==
  \/ InitScene(ColorFeeds)
  \/ AnimateFrame(TRUE)
  \/ TickPropagate(Outcomes)
  \/ TickRender

SpecColor == Init /\ [][NextColor]_vars

\* The session under pointer events, from fully shown to fully faded out.
PickFeeds == {<<TleIss, TleMolniya>>, <<TleIss, TleIss>>}
PickFilters == {<<"ALL", "ALL">>, <<"HEO", "ALL">>}

NextPick ==
  \/ InitScene(PickFeeds)
  \/ AnimateFrame(FALSE)
  \/ TickPropagate({"ok_low", "error"})
  \/ TickRender
  \/ handleFilterUpdateFromComponent(PickFilters, MaxFilterChanges)
  \/ onMouseMove
  \/ onMouseLeave
  \/ onClick

SpecPick == Init /\ [][NextPick]_vars

\* The smoothing step alone, from every opacity of a grid over [0, 1] and for
\* either target.
SmoothGrid == 20

InitSmooth ==
  /\ ComponentInit
  /\ \E k \in 0..SmoothGrid : \E target \in {0, OpScale} :
       smooth = [opacity |-> k * (OpScale \div SmoothGrid),
                 from |-> k * (OpScale \div SmoothGrid),
                 target |-> target, n |-> 0]
  /\ parse = NoParse
  /\ classified = NoClassified
  /\ trackRun = NoTrack
  /\ weather = NoWeather

\* One tick's smoothing of the marker opacity toward its target.
SmoothStep ==
  /\ smooth' = [smooth EXCEPT !.opacity = Lerp(@, smooth.target),
                              !.n = IF @ < FadeTicks THEN @ + 1 ELSE @]
  /\ UNCHANGED <<compVars, localSatelliteObjects, mountVars, fetchPending,
                 fetchedTLEs, frameQueue, listening, pc, inInit, emitted,
                 cleanupLog, created, ticks, filterChanges, teardowns, stableTicks,
                 decayReported, errorReported, parse, classified, trackRun, weather, lastOutcome,
                 lastPick>>

NextSmooth == SmoothStep

SpecSmooth == InitSmooth /\ [][NextSmooth]_vars

\* parseFirstNTleData alone, on every text of up to MaxPieces pieces and for
\* every count up to MaxCount.
otherVars ==
  <<compVars, localSatelliteObjects, mountVars, fetchPending, fetchedTLEs,
    frameQueue, listening, pc, inInit, emitted, cleanupLog, created, ticks, filterChanges,
    teardowns, stableTicks, decayReported, errorReported, lastOutcome, lastPick>>

InitParse ==
  /\ ComponentInit
  /\ smooth = [opacity |-> OpScale, from |-> OpScale, target |-> OpScale, n |-> 0]
  /\ classified = NoClassified
  /\ trackRun = NoTrack
  /\ weather = NoWeather
  /\ \E n \in 0..MaxPieces : \E pieces \in [1..n -> Pieces] :
       \E count \in 0..MaxCount :
         parse = [text |-> TextOf(pieces), pieces |-> pieces, count |-> count,
                  lines |-> << >>, i |-> 0, satellites |-> << >>,
                  examined |-> << >>, at |-> "split"]

\* The first statement: the text is trimmed and split into lines.
ParseSplit ==
  /\ parse.at = "split"
  /\ parse' = [parse EXCEPT !.lines = TrimSplit(parse.text), !.at = "loop"]
  /\ UNCHANGED <<otherVars, smooth, classified, trackRun, weather>>

\* One pass of the loop, or its end.
ParseStep ==
  /\ parse.at = "loop"
  /\ parse' = ParseBody(parse)
  /\ UNCHANGED <<otherVars, smooth, classified, trackRun, weather>>

NextParse ==
  \/ ParseSplit
  \/ ParseStep

SpecParse == InitParse /\ [][NextParse]_vars

\* The GET handler of /api/tle on an upstream text of well-formed groups:
\* parseFirstNTleData(tleText, TARGET_SATELLITE_COUNT), whose result it
\* returns as the body.
UpstreamFeed(n) == [k \in 1..n |-> IF k % 2 = 1 THEN GroupIss ELSE GroupHst]

InitGet ==
  /\ ComponentInit
  /\ smooth = [opacity |-> OpScale, from |-> OpScale, target |-> OpScale, n |-> 0]
  /\ classified = NoClassified
  /\ trackRun = NoTrack
  /\ weather = NoWeather
  /\ \E n \in 0..MaxUpstream :
       parse = [text |-> TextOf(UpstreamFeed(n)), pieces |-> UpstreamFeed(n),
                count |-> TARGET_SATELLITE_COUNT, lines |-> << >>, i |-> 0,
                satellites |-> << >>, examined |-> << >>, at |-> "split"]

NextGet ==
  \/ ParseSplit
  \/ ParseStep

SpecGet == InitGet /\ [][NextGet]_vars

\* classifyOrbit alone, on a grid of element sets on either side of each
\* of its thresholds: mean motion in 1e-6 rad/min (periods around 1436.1 -+ 30
\* min, altitudes around 2000 km, none or negative), eccentricity in 1e-4,
\* inclination in 1e-4 rad (around 5, 93 and 103 degrees).
ClassifyNo ==
  {-1000, 0, 1, 4280, 4290, 4375, 4465, 4475, 8752, 45000, 54000, 63573, 67632}
ClassifyEcco == {0, 999, 1000, 2500, 2501, 3000}
ClassifyInclo == {0, 870, 875, 9013, 16230, 16235, 17104, 17975, 17980}

InitClassify ==
  /\ ComponentInit
  /\ smooth = [opacity |-> OpScale, from |-> OpScale, target |-> OpScale, n |-> 0]
  /\ parse = NoParse
  /\ trackRun = NoTrack
  /\ weather = NoWeather
  /\ \E no \in ClassifyNo : \E ecco \in ClassifyEcco : \E inclo \in ClassifyInclo :
       classified = [satrec |-> [no |-> no, ecco |-> ecco, inclo |-> inclo],
                     result |-> "none"]

ClassifyStep ==
  /\ classified.result = "none"
  /\ classified' = [classified EXCEPT !.result = classifyOrbit(classified.satrec)]
  /\ UNCHANGED <<otherVars, smooth, parse, trackRun, weather>>

NextClassify == ClassifyStep

SpecClassify == InitClassify /\ [][NextClassify]_vars

\* calculateTrackPoints, one pass of its loop at a time, and the session init
\* builds around its result.  The loop variable runs from TrackFirst to
\* TrackLast; a point is the offset of its instant from startTime, in seconds.
TrackFirst == -minutesBefore * (60 \div stepSeconds)
TrackLast == minutesAfter * (60 \div stepSeconds)
TrackInstants == TrackLast - TrackFirst + 1

\* What the propagator does at each instant: a position between the instants
\* a and b (or outside them), and a failure elsewhere: no position, a thrown
\* error, or the two in turn.
TrackCuts == {1, 2, 3, 46, 90, 91}
TrackFailures == {"nopos", "throw", "mixed"}
TrackOutcomes(a, b, inside, kind) ==
  [k \in 1..TrackInstants |->
     IF (a <= k /\ k <= b) <=> inside THEN "ok"
     ELSE IF kind = "mixed" THEN (IF k % 2 = 0 THEN "nopos" ELSE "throw")
     ELSE kind]

\* A loop that a thrown error ends, to test C27 against.
TrackLoopBodyAbort(t) ==
  IF t.i > TrackLast THEN [t EXCEPT !.at = "done"]
  ELSE LET oc == t.outcomes[t.i - TrackFirst + 1]
       IN IF oc = "throw" THEN [t EXCEPT !.at = "done"]
          ELSE [t EXCEPT !.i = @ + 1,
                         !.points = IF oc = "ok" THEN Append(@, t.i * stepSeconds)
                                    ELSE @]

\* One pass of the for loop of calculateTrackPoints, or its end.
TrackLoopBody(t) ==
  IF t.i > TrackLast THEN [t EXCEPT !.at = "done"]
  ELSE LET oc == t.outcomes[t.i - TrackFirst + 1]
       IN [t EXCEPT !.i = @ + 1,
                    !.points = IF oc = "ok" THEN Append(@, t.i * stepSeconds) ELSE @]

InitTrack ==
  /\ ComponentInit
  /\ smooth = [opacity |-> OpScale, from |-> OpScale, target |-> OpScale, n |-> 0]
  /\ parse = NoParse
  /\ classified = NoClassified
  /\ weather = NoWeather
  /\ \E a \in TrackCuts : \E b \in TrackCuts : \E inside \in BOOLEAN :
       \E kind \in TrackFailures :
         trackRun = [outcomes |-> TrackOutcomes(a, b, inside, kind),
                     i |-> TrackFirst, points |-> << >>, at |-> "loop"]

TrackStep ==
  /\ trackRun.at = "loop"
  /\ trackRun' = TrackLoopBody(trackRun)
  /\ UNCHANGED <<otherVars, smooth, parse, classified, weather>>

\* The element set whose track was computed.
TrackedTle == [TleIss EXCEPT !.trackOk = Len(trackRun.points)]

\* init goes on with the points calculateTrackPoints returned.
InitSceneTracked ==
  /\ trackRun.at = "done"
  /\ InitScene({<<TrackedTle>>})

NextTrack ==
  \/ TrackStep
  \/ InitSceneTracked
  \/ AnimateFrame(TRUE)
  \/ TickPropagate({"ok_low", "error"})
  \/ TickRender

SpecTrack == InitTrack /\ [][NextTrack]_vars

\* The interpretation part of the /api/space-weather handler, one block per
\* step.  A notification is given by the first branch of its block that its
\* body matches: absent (no notification of the type), other (no branch).
GstBodies == {"absent", "other", "active", "g1", "g2", "g3", "g4", "g5"}
FlrBodies == {"absent", "other", "R1", "R2", "R3", "R4", "R5"}
SepBodies == {"absent", "other", "S1", "S2", "S3", "S4", "S5"}
CmeBodies == {"absent", "other", "earth"}

\* parseInt(satelliteRisk, 10) || 0: no risk level starts with a digit, so
\* parseInt gives NaN and the expression 0.
ParseIntOrZero(level) == 0

Max(a, b) == IF a >= b THEN a ELSE b

GstBlock(w) ==
  CASE w.gst = "g5" ->
         [w EXCEPT !.geoActivityLevel = "Extreme", !.auroraPossibility = "High",
                   !.satelliteRisk = "Severe"]
    [] w.gst = "g4" ->
         [w EXCEPT !.geoActivityLevel = "Severe", !.auroraPossibility = "High",
                   !.satelliteRisk = "High"]
    [] w.gst = "g3" ->
         [w EXCEPT !.geoActivityLevel = "High", !.auroraPossibility = "Moderate",
                   !.satelliteRisk = "High"]
    [] w.gst \in {"g2", "g1"} ->
         [w EXCEPT !.geoActivityLevel = "Moderate", !.auroraPossibility = "Low",
                   !.satelliteRisk = "Moderate"]
    [] w.gst = "active" ->
         [w EXCEPT !.geoActivityLevel = "Low", !.satelliteRisk = "Low"]
    [] OTHER -> w

FlrBlock(w) ==
  LET first ==
        CASE w.flr = "R5" ->
               [w EXCEPT !.radioBlackoutLevel = "Extreme",
                         !.satelliteRisk =
                           IF Max(ParseIntOrZero(w.satelliteRisk), 3) = 3
                             THEN "Severe" ELSE "High"]
          [] w.flr = "R4" ->
               [w EXCEPT !.radioBlackoutLevel = "Severe",
                         !.satelliteRisk =
                           IF Max(ParseIntOrZero(w.satelliteRisk), 2) = 2
                             THEN "High" ELSE "High"]
          [] w.flr = "R3" ->
               [w EXCEPT !.radioBlackoutLevel = "High",
                         !.satelliteRisk =
                           IF Max(ParseIntOrZero(w.satelliteRisk), 1) = 1
                             THEN "Moderate" ELSE "Moderate"]
          [] w.flr = "R2" -> [w EXCEPT !.radioBlackoutLevel = "Moderate"]
          [] w.flr = "R1" -> [w EXCEPT !.radioBlackoutLevel = "Low"]
          [] OTHER -> w
  IN IF w.flr = "absent" THEN w
     ELSE IF first.radioBlackoutLevel \in {"Extreme", "Severe"}
       THEN [first EXCEPT !.satelliteRisk = IF @ = "Severe" THEN "Severe" ELSE "High"]
     ELSE IF first.radioBlackoutLevel = "High"
       THEN [first EXCEPT !.satelliteRisk =
                            IF @ \in {"Severe", "High"} THEN @ ELSE "Moderate"]
     ELSE first

SepBlock(w) ==
  CASE w.sep = "S5" ->
         [w EXCEPT !.radiationStormLevel = "Extreme", !.satelliteRisk = "Severe"]
    [] w.sep = "S4" ->
         [w EXCEPT !.radiationStormLevel = "Severe", !.satelliteRisk = "Severe"]
    [] w.sep = "S3" ->
         [w EXCEPT !.radiationStormLevel = "High",
                   !.satelliteRisk = IF @ \in {"Severe", "High"} THEN @ ELSE "High"]
    [] w.sep = "S2" ->
         [w EXCEPT !.radiationStormLevel = "Moderate",
                   !.satelliteRisk =
                     IF @ \in {"Severe", "High", "Moderate"} THEN @ ELSE "Moderate"]
    [] w.sep = "S1" ->
         [w EXCEPT !.radiationStormLevel = "Low",
                   !.satelliteRisk =
                     IF @ \in {"Severe", "High", "Moderate", "Low"} THEN @ ELSE "Low"]
    [] OTHER -> w

CmeBlock(w) ==
  IF w.cme = "earth"
    THEN [w EXCEPT !.cmeRisk = "Moderate",
                   !.satelliteRisk = IF @ \in {"Severe", "High"} THEN @ ELSE "Moderate"]
    ELSE w

InitWeather ==
  /\ ComponentInit
  /\ smooth = [opacity |-> OpScale, from |-> OpScale, target |-> OpScale, n |-> 0]
  /\ parse = NoParse
  /\ classified = NoClassified
  /\ trackRun = NoTrack
  /\ \E g \in GstBodies : \E f \in FlrBodies : \E p \in SepBodies : \E c \in CmeBodies :
       weather = [NoWeather EXCEPT !.gst = g, !.flr = f, !.sep = p, !.cme = c,
                                   !.at = "gst"]

WeatherGst ==
  /\ weather.at = "gst"
  /\ weather' = [GstBlock(weather) EXCEPT !.at = "flr"]
  /\ UNCHANGED <<otherVars, smooth, parse, classified, trackRun>>

WeatherFlr ==
  /\ weather.at = "flr"
  /\ weather' = [FlrBlock(weather) EXCEPT !.at = "sep"]
  /\ UNCHANGED <<otherVars, smooth, parse, classified, trackRun>>

WeatherSep ==
  /\ weather.at = "sep"
  /\ weather' = [SepBlock(weather) EXCEPT !.at = "cme"]
  /\ UNCHANGED <<otherVars, smooth, parse, classified, trackRun>>

WeatherCme ==
  /\ weather.at = "cme"
  /\ weather' = [CmeBlock(weather) EXCEPT !.at = "done"]
  /\ UNCHANGED <<otherVars, smooth, parse, classified, trackRun>>

NextWeather ==
  \/ WeatherGst
  \/ WeatherFlr
  \/ WeatherSep
  \/ WeatherCme

SpecWeather == InitWeather /\ [][NextWeather]_vars

\* ------------------------------------------------------------------- claims

Registry == DOMAIN localSatelliteObjects

\* C1: once the propagation of an entity has reported decay, its isVisible
\* flag is never true again, whatever ticks and filter changes follow.
C1_DecayPermanence ==
  \A i \in decayReported \cap Registry : ~localSatelliteObjects[i].isVisible

\* orbitMatch and typeMatch as C2 words them.
C2_orbitMatch(sat, f) ==
  f = "ALL" \/ sat.orbitType = f \/ (f = "OTHER" /\ sat.orbitType = "Unknown")
C2_typeMatch(sat, f) ==
  \/ f = "ALL"
  \/ f = "ISS" /\ sat.details.type = "ISS"
  \/ f = "OBSERVATION" /\ sat.details.type = "Earth Observation"
  \/ f = "CAMERA" /\ sat.details.hasCamera = TRUE

\* C2: right after the filter step, for every entity and every pair of
\* filters, isVisible is orbitMatch AND typeMatch.
C2_FilterCorrectness ==
  pc = "filtered" =>
    \A i \in Registry :
      localSatelliteObjects[i].isVisible =
        (/\ C2_orbitMatch(localSatelliteObjects[i], currentOrbitFilter)
         /\ C2_typeMatch(localSatelliteObjects[i], currentTypeFilter))

\* A filter step under two selective filters that kept one entity and
\* dropped another.
C2_Witness ==
  /\ pc = "filtered"
  /\ currentOrbitFilter # "ALL" /\ currentTypeFilter # "ALL"
  /\ \E i, j \in Registry :
       /\ localSatelliteObjects[i].isVisible
       /\ ~localSatelliteObjects[j].isVisible

Range(seq) == {seq[k] : k \in DOMAIN seq}
Occurrences(seq, x) == Cardinality({k \in DOMAIN seq : seq[k] = x})

\* C4: after teardown no tick body runs (the registry, the label and the tick
\* position stay as teardown left them), nothing is created and no listener
\* is attached, whether a frame callback was pending or the fetch was still
\* in flight; no frame callback stays pending, and every disposal comes
\* after the cancellation.
C4_NoWorkAfterTeardown ==
  [][/\ teardowns >= 1 =>
          /\ pc' = "idle"
          /\ localSatelliteObjects' = << >>
          /\ labelInfo' = labelInfo
          /\ created' = created
          /\ sceneInstance' = NullScene
          /\ rendererInstance' = "null"
          /\ ~listening'
     /\ teardowns' >= 1 =>
          /\ frameQueue' = 0
          /\ \A k \in DOMAIN cleanupLog' :
               cleanupLog'[k] # Cancel =>
                 \E j \in 1..(k - 1) : cleanupLog'[j] = Cancel]_vars

\* Teardown ran after at least one whole tick, with a frame callback pending,
\* and disposed the scene.
C4_Witness ==
  /\ teardowns >= 1
  /\ ticks >= 1
  /\ frameQueue = 0
  /\ cleanupLog # << >> /\ Head(cleanupLog) = Cancel
  /\ Len(cleanupLog) > 1

\* C5: once teardown has run, every rendering resource the session created
\* has been disposed exactly once, nothing else has been disposed, and this
\* still holds after a second teardown.
C5_DisposedExactlyOnce ==
  teardowns >= 1 =>
    /\ \A r \in created : Occurrences(cleanupLog, r) = 1
    /\ Range(cleanupLog) \subseteq created \cup {Cancel}

\* Teardown ran twice over a scene that held an entity with a track.
C5_Witness ==
  /\ teardowns = 2
  /\ \E r \in created : r[1] = "trackGeometry"
  /\ \E r \in created : r[1] = "earthTexture"
  /\ Len(cleanupLog) > Cardinality(created)

\* C10: with both filters ALL, at the end of every tick every entity that
\* has not decayed and whose propagation did not throw in that tick has
\* isVisible true, also when its propagation threw in an earlier tick.
C10_AllFiltersShowNonDecayed ==
  (pc = "propagated" /\ currentOrbitFilter = "ALL" /\ currentTypeFilter = "ALL") =>
    \A i \in Registry :
      (i \notin decayReported /\ lastOutcome[i] # "error") =>
        localSatelliteObjects[i].isVisible

\* The end of a tick under ALL/ALL in which one entity that threw in an
\* earlier tick is visible again and another one has just thrown.
C10_Witness ==
  /\ pc = "propagated" /\ currentOrbitFilter = "ALL" /\ currentTypeFilter = "ALL"
  /\ \E i, j \in Registry :
       /\ i \in errorReported \ decayReported
       /\ lastOutcome[i] # "error"
       /\ localSatelliteObjects[i].isVisible
       /\ lastOutcome[j] = "error"
       /\ ~localSatelliteObjects[j].isVisible

\* C10 as stated: with both filters ALL, at the end of every tick every
\* entity that has not decayed has isVisible true, a propagation that threw
\* another error in that tick included.
C10_AsStated ==
  (pc = "propagated" /\ currentOrbitFilter = "ALL" /\ currentTypeFilter = "ALL") =>
    \A i \in Registry :
      i \notin decayReported => localSatelliteObjects[i].isVisible

\* C3: no pick, by pointer move or by click, returns an entity whose marker
\* opacity is at or below the hide threshold, whatever markers the ray meets.
C3_PickingExclusivity ==
  /\ lastPick.hit # 0 =>
       localSatelliteObjects[lastPick.hit].opacity > HideThreshold
  /\ \A ray \in Rays(localSatelliteObjects) :
       LET hit == Pick(localSatelliteObjects, ray)
       IN hit # 0 => localSatelliteObjects[hit].opacity > HideThreshold

\* A pointer move whose ray met a faded-out marker first and picked the
\* marker behind it.
C3_Witness ==
  /\ lastPick.op = "move"
  /\ Len(lastPick.ray) = 2
  /\ localSatelliteObjects[lastPick.ray[1]].opacity <= HideThreshold
  /\ lastPick.hit = lastPick.ray[2]
  /\ hoveredSatelliteName = localSatelliteObjects[lastPick.hit].name

\* The nearest marker of a ray that is rendered, or 0.
C6_FirstRenderable(ray) ==
  LET shown == {k \in DOMAIN ray : localSatelliteObjects[ray[k]].meshVisible}
  IN IF shown = {} THEN 0
     ELSE ray[CHOOSE k \in shown : \A m \in shown : k <= m]

\* C6: a click whose ray hits a rendered marker emits exactly one
\* satelliteclick event, carrying the fields of the entity that owns the
\* nearest such marker; a click that hits none emits nothing, and so does
\* every step that is not a click.
C6_ClickEmitsOnHit ==
  /\ lastPick.op = "click" =>
       LET hit == C6_FirstRenderable(lastPick.ray)
       IN emitted = IF hit # 0 THEN <<localSatelliteObjects[hit]>> ELSE << >>
  /\ lastPick.op # "click" => emitted = << >>

\* A click whose ray met a marker that is not rendered first, and emitted the
\* entity behind it.
C6_Witness ==
  /\ lastPick.op = "click"
  /\ Len(lastPick.ray) = 2
  /\ ~localSatelliteObjects[lastPick.ray[1]].meshVisible
  /\ Len(emitted) = 1
  /\ emitted[1] = localSatelliteObjects[lastPick.ray[2]]
  /\ emitted[1].name = "MOLNIYA 1-91"

\* C7: from any opacity in [0, 1], FadeTicks smoothing steps toward a
\* constant target of 0 or 1 bring the opacity within 0.01 of the target,
\* where it stays on every later step.
C7_OpacityConvergence ==
  smooth.n >= FadeTicks =>
    Abs(smooth.opacity - smooth.target) <= OpScale \div 100

\* The slowest case, from 1 toward 0, after exactly FadeTicks steps.
C7_Witness ==
  /\ smooth.n = FadeTicks
  /\ smooth.from = OpScale /\ smooth.target = 0
  /\ smooth.opacity > 0

\* C8: once the filters have been constant for FadeTicks ticks, every entity
\* that does not match them is not rendered and cannot be picked, and every
\* matching entity whose propagation succeeded in the tick is rendered.
C8_FilterConvergence ==
  stableTicks >= FadeTicks =>
    \A i \in Registry :
      LET sat == localSatelliteObjects[i]
          match == /\ C2_orbitMatch(sat, currentOrbitFilter)
                   /\ C2_typeMatch(sat, currentTypeFilter)
      IN /\ ~match =>
              /\ ~sat.meshVisible
              /\ \A ray \in Rays(localSatelliteObjects) :
                   Pick(localSatelliteObjects, ray) # i
         /\ (match /\ pc = "propagated" /\ lastOutcome[i] = "ok_low") =>
              sat.meshVisible

\* Orbit filter HEO held for FadeTicks ticks: the LEO entity has faded out,
\* the HEO entity has just been propagated and is rendered.
C8_Witness ==
  /\ stableTicks >= FadeTicks
  /\ currentOrbitFilter = "HEO" /\ pc = "propagated"
  /\ \E i, j \in Registry :
       /\ localSatelliteObjects[i].orbitType = "LEO"
       /\ ~localSatelliteObjects[i].meshVisible
       /\ localSatelliteObjects[j].orbitType = "HEO"
       /\ lastOutcome[j] = "ok_low"
       /\ localSatelliteObjects[j].meshVisible

\* C9: in every tick, every marker that is rendered has the hazard colour if
\* the risk level is High, Severe or Extreme and the entity is above 50
\* degrees of latitude, and the default colour of its entity otherwise.
C9_HazardColoring ==
  pc = "propagated" =>
    \A i \in Registry :
      LET sat == localSatelliteObjects[i]
      IN sat.meshVisible =>
           sat.color = IF IsHazardCondition(radiationRiskLevel) /\ sat.currentLat = "high"
                         THEN HAZARD_COLOR
                         ELSE sat.defaultColor

\* The record a block of three raw lines stands for.
RecordOf(nameLine, line1, line2) ==
  [name |-> Trim(nameLine), tle1 |-> Trim(line1), tle2 |-> Trim(line2),
   noradId |-> Trim(Substring(Trim(line1), 2, 7))]

\* C11: parseFirstNTleData never holds more than count records, and once it
\* holds count records it examines no further block: the last block it
\* examined is the one that gave the last record (none at all for count 0).
C11_IngestionCap ==
  /\ Len(parse.satellites) <= parse.count
  /\ Len(parse.satellites) >= parse.count =>
       IF parse.count = 0 THEN parse.examined = << >>
       ELSE /\ parse.examined # << >>
            /\ LET last == parse.examined[Len(parse.examined)]
               IN parse.satellites[parse.count] =
                    RecordOf(parse.lines[last + 1], parse.lines[last + 2],
                             parse.lines[last + 3])

\* The parser stopped at the cap with a valid block left unexamined.
C11_Witness ==
  /\ parse.at = "done"
  /\ parse.count >= 1 /\ Len(parse.satellites) = parse.count
  /\ parse.i + 2 < Len(parse.lines)
  /\ LET b == BlockAt(parse.lines, parse.i)
     IN ValidBlock(b.nameLine, b.line1, b.line2)

\* A well-formed group as the ingestion contract words it: three lines that
\* are non-empty after trimming, the prefixes "1 " and "2 ", and five digits
\* at columns 3 to 7 of line 1.
C12_WellFormed(nameLine, line1, line2) ==
  /\ Trim(nameLine) # << >> /\ Trim(line1) # << >> /\ Trim(line2) # << >>
  /\ StartsWith(Trim(line1), <<"1", " ">>)
  /\ StartsWith(Trim(line2), <<"2", " ">>)
  /\ Len(Trim(line1)) >= 7
  /\ \A k \in 3..7 : Trim(line1)[k] \in Digits

\* C12: a text of n well-formed groups (n within the count) and 1 or 2 more
\* lines gives exactly the n records of the groups, in their order; the
\* empty text gives none.
C12_IngestionRobustness ==
  parse.at = "done" =>
    /\ parse.text = << << >> >> => parse.satellites = << >>
    /\ \A n \in 0..parse.count : \A t \in {1, 2} :
         (/\ Len(parse.text) = 3 * n + t
          /\ \A k \in 0..(n - 1) :
               C12_WellFormed(parse.text[3 * k + 1], parse.text[3 * k + 2],
                              parse.text[3 * k + 3]))
         => /\ Len(parse.satellites) = n
            /\ \A k \in 0..(n - 1) :
                 parse.satellites[k + 1] =
                   RecordOf(parse.text[3 * k + 1], parse.text[3 * k + 2],
                            parse.text[3 * k + 3])

\* Two different well-formed groups and a 2-line fragment gave two records.
C12_Witness ==
  /\ parse.at = "done"
  /\ Len(parse.text) = 8
  /\ \A k \in 0..1 :
       C12_WellFormed(parse.text[3 * k + 1], parse.text[3 * k + 2],
                      parse.text[3 * k + 3])
  /\ Len(parse.satellites) = 2
  /\ parse.satellites[1] # parse.satellites[2]

\* The blocks examined so far that pass a validity test.
ExaminedBlocks == {BlockAt(parse.lines, parse.examined[k]) : k \in DOMAIN parse.examined}
ExaminedIndices(Valid(_)) ==
  {k \in DOMAIN parse.examined : Valid(BlockAt(parse.lines, parse.examined[k]))}

\* Validity with the catalog ID trimmed before it is tested.
C13_ValidTrimmed(b) ==
  /\ b.nameLine # << >> /\ b.line1 # << >> /\ b.line2 # << >>
  /\ StartsWith(b.line1, <<"1", " ">>)
  /\ StartsWith(b.line2, <<"2", " ">>)
  /\ LET id == Trim(Substring(b.line1, 2, 7))
     IN id # << >> /\ \A k \in DOMAIN id : id[k] \in Digits

\* Validity with the substring at columns 3 to 7 tested as it stands.
C13_ValidUntrimmed(b) ==
  /\ b.nameLine # << >> /\ b.line1 # << >> /\ b.line2 # << >>
  /\ StartsWith(b.line1, <<"1", " ">>)
  /\ StartsWith(b.line2, <<"2", " ">>)
  /\ LET id == Substring(b.line1, 2, 7)
     IN id # << >> /\ \A k \in DOMAIN id : id[k] \in Digits

\* C13: at every point of the loop the records are exactly those of the
\* examined blocks whose three lines are non-empty after trimming, whose
\* lines 1 and 2 start with "1 " and "2 ", and whose characters at columns 3
\* to 7 of line 1 are, once trimmed, non-empty and all digits; every record
\* has these prefixes and a catalog ID of digits only.
C13_IngestionValidity ==
  /\ Len(parse.satellites) = Cardinality(ExaminedIndices(C13_ValidTrimmed))
  /\ \A k \in DOMAIN parse.satellites :
       LET r == parse.satellites[k]
       IN /\ StartsWith(r.tle1, <<"1", " ">>)
          /\ StartsWith(r.tle2, <<"2", " ">>)
          /\ r.noradId # << >>
          /\ \A m \in DOMAIN r.noradId : r.noradId[m] \in Digits

\* A block with a catalog ID padded with blanks gave a record, a block with
\* a letter in its catalog ID gave none.
C13_Witness ==
  /\ parse.at = "done"
  /\ \E k \in DOMAIN parse.satellites : parse.satellites[k].noradId = <<"1", "2", "3">>
  /\ \E b \in ExaminedBlocks :
       /\ StartsWith(b.line1, <<"1", " ">>)
       /\ ~C13_ValidTrimmed(b)

\* C13 as stated: a block gives a record if and only if the substring at
\* columns 3 to 7 of line 1, as it stands, is non-empty and all digits (and
\* the lines and prefixes are right).
C13_AsStated ==
  Len(parse.satellites) = Cardinality(ExaminedIndices(C13_ValidUntrimmed))

Take(seq, n) == SubSeq(seq, 1, IF n < Len(seq) THEN n ELSE Len(seq))

C14_GoodGroup(piece) ==
  /\ Len(piece) = 3
  /\ C13_ValidTrimmed([nameLine |-> Trim(piece[1]), line1 |-> Trim(piece[2]),
                       line2 |-> Trim(piece[3])])
C14_RecordOfPiece(piece) == RecordOf(piece[1], piece[2], piece[3])

\* C14: whatever corrupt or partial pieces a text holds, the parser returns
\* the records of its well-formed groups, in order, up to the count.
C14_SkipsOnlyBadGroups ==
  parse.at = "done" =>
    LET good == SelectSeq(parse.pieces, C14_GoodGroup)
    IN parse.satellites =
         Take([k \in DOMAIN good |-> C14_RecordOfPiece(good[k])], parse.count)

\* C15: an element set with eccentricity above 0.25 and a positive mean
\* motion classifies as HEO, whatever its mean motion and inclination.
C15_HeoPriority ==
  (/\ classified.result # "none"
   /\ classified.satrec.ecco > 2500
   /\ classified.satrec.no > 0) => classified.result = "HEO"

\* Eccentricity 0.3 on a geostationary period at no inclination, and on a
\* low sun-synchronous orbit, classified as HEO.
C15_Witness ==
  /\ classified.result = "HEO"
  /\ classified.satrec.ecco = 3000
  /\ classified.satrec.no \in {4375, 63573}
  /\ classified.satrec.inclo \in {0, 17104}

\* C15 as stated: an element set with eccentricity above 0.25 classifies as
\* HEO for every mean motion and inclination.
C15_AsStated ==
  (classified.result # "none" /\ classified.satrec.ecco > 2500) =>
    classified.result = "HEO"

\* The class C16 gives an element set: the first of its rules that matches.
C16_Expected(satrec) ==
  LET period == PeriodMin100(satrec.no)
      alt == AltitudeKm(satrec.no)
      incl == InclinationDeg100(satrec.inclo)
      heo == satrec.ecco > 2500
      geo == Abs(period - 143610) < 3000 /\ satrec.ecco < 1000 /\ incl < 500
      sso == alt < 2000 /\ Abs(incl - 9800) < 500
      leo == alt < 2000
  IN IF satrec.no <= 0 THEN "Unknown"
     ELSE CASE heo -> "HEO"
            [] ~heo /\ geo -> "GEO"
            [] ~heo /\ ~geo /\ sso -> "SSO"
            [] ~heo /\ ~geo /\ ~sso /\ leo -> "LEO"
            [] ~heo /\ ~geo /\ ~sso /\ ~leo -> "MEO"

C17_HandlerState ==
  <<hoveredSatelliteName, currentOrbitFilter, currentTypeFilter, filterChanges,
    emitted, lastPick>>

\* C17: a tick goes from the filter step to the propagation to the hover
\* label and the render.  When the filter step has run, nothing is propagated
\* yet and the label is the old one; the next step propagates the whole
\* registry and leaves the label; the step after that recomputes the label
\* from the propagated registry and ends the tick; and between the steps of a
\* tick no handler has written anything.
C17_TickOrdering ==
  [][/\ (pc = "idle" /\ pc' # "idle") =>
          /\ pc' = "filtered"
          /\ lastOutcome' = << >>
          /\ labelInfo' = labelInfo
     /\ pc = "filtered" =>
          /\ pc' = "propagated"
          /\ DOMAIN lastOutcome' = DOMAIN localSatelliteObjects
          /\ \A i \in DOMAIN localSatelliteObjects :
               localSatelliteObjects'[i].opacity = localSatelliteObjects[i].opacity
          /\ labelInfo' = labelInfo
          /\ UNCHANGED C17_HandlerState
     /\ pc = "propagated" =>
          /\ pc' = "idle"
          /\ \E inFront \in BOOLEAN :
               labelInfo' = HoverLabel(localSatelliteObjects, hoveredSatelliteName, inFront)
          /\ \A i \in DOMAIN localSatelliteObjects :
               localSatelliteObjects'[i].currentLat = localSatelliteObjects[i].currentLat
          /\ UNCHANGED C17_HandlerState]_vars

\* A tick that has propagated and not yet recomputed the label, after a
\* filter change and a pointer move between two ticks.
C17_Witness ==
  /\ pc = "propagated"
  /\ ticks >= 2
  /\ filterChanges >= 1
  /\ hoveredSatelliteName # "null"
  /\ labelInfo = NoLabel
  /\ \E i \in DOMAIN lastOutcome : lastOutcome[i] = "ok_low"

\* C18: at most one frame callback is pending in every state; init starts
\* the loop at most once, when the fetch resolves and nothing has run; a tick
\* starts only when no tick is executing, from init or from the one pending
\* callback.
C18_SingleLoop ==
  /\ [](frameQueue <= 1)
  /\ [][/\ (inInit' /\ ~inInit) =>
              /\ fetchPending /\ ~fetchPending'
              /\ ticks = 0 /\ frameQueue = 0 /\ animationFrameId = 0
        /\ ~fetchPending => (~inInit' \/ inInit)
        /\ pc' = "filtered" =>
              /\ pc = "idle"
              /\ (inInit' /\ ~inInit) \/ frameQueue = 1]_vars

\* The loop after MaxTicks ticks, idle between two ticks with its one
\* callback pending.
C18_Witness ==
  /\ ticks = MaxTicks
  /\ pc = "idle"
  /\ isMounted
  /\ frameQueue = 1
  /\ animationFrameId # 0

\* The template shows the globe when loading is over and there is no error.
C19_Ready == ~isLoadingTLE /\ tleError = "null"

\* C19: the fetch is issued once and its result never replaced; a tick runs
\* only after the fetch gave a list; when the fetch fails, or gives an empty
\* list while the component is mounted, the session enters the error state
\* with a message; after a failure or an empty list, mounted or not, the
\* session is never ready and no tick runs; the error state is never left.
C19_LoopStartAndFetchFailure ==
  /\ [](/\ fetchPending <=> fetchedTLEs = "pending"
        /\ (ticks >= 1 \/ pc # "idle" \/ frameQueue > 0 \/ C19_Ready) =>
             fetchedTLEs = "list"
        /\ fetchedTLEs \in {"threw", "empty"} =>
             /\ ~C19_Ready
             /\ ticks = 0 /\ pc = "idle" /\ frameQueue = 0 /\ created = {})
  /\ [][/\ fetchedTLEs # "pending" => fetchedTLEs' = fetchedTLEs
        /\ (/\ fetchedTLEs = "pending"
            /\ \/ fetchedTLEs' = "threw"
               \/ fetchedTLEs' = "empty" /\ isMounted) =>
             (tleError' # "null" /\ ~isLoadingTLE')
        /\ tleError # "null" => tleError' = tleError]_vars

\* The session in its error state after an empty list, with a filter change
\* and the teardown behind it.
C19_Witness ==
  /\ fetchedTLEs = "empty"
  /\ tleError = "No satellite data available."
  /\ ~isLoadingTLE
  /\ filterChanges >= 1
  /\ teardowns >= 1

\* C19 as stated: when the fetch has failed or given an empty list, the
\* session is in the error state.
C19_AsStated ==
  fetchedTLEs \in {"threw", "empty"} => tleError # "null"

\* C20: in every state no two entities of the registry have the same catalog
\* ID, whatever the feed.
C20_RegistryKeyUniqueness ==
  \A i, j \in Registry :
    i # j => localSatelliteObjects[i].satrec.satnum # localSatelliteObjects[j].satrec.satnum

\* C21: the body the /api/tle handler returns holds at most 50 element sets.
C21_AtMostFirst50 ==
  (parse.count = TARGET_SATELLITE_COUNT /\ parse.at = "done") =>
    Len(parse.satellites) <= 50

\* C22: in the propagation step of a tick the propagator is not called for
\* an entity whose propagation reported decay in an earlier tick.
C22_NoPropagationAfterDecay ==
  [][(pc = "filtered" /\ pc' = "propagated") =>
       \A i \in decayReported \cap DOMAIN lastOutcome' :
         lastOutcome'[i] = "skipped"]_vars

\* C23: in the propagation step of a tick the propagator is called for every
\* entity whose propagation has not reported decay, filtered out or not.
C23_PropagateEveryNonDecayed ==
  pc = "propagated" =>
    \A i \in DOMAIN lastOutcome \ decayReported : lastOutcome[i] # "skipped"

\* C24: an entity whose propagation threw another error than decay, or gave
\* no position, has neither its marker nor its track in the frame of that tick.
C24_NonDecayFailureHidden ==
  pc = "propagated" =>
    \A i \in DOMAIN lastOutcome :
      (lastOutcome[i] \in {"error", "nopos"} /\ i \in Registry) =>
        /\ ~localSatelliteObjects[i].meshVisible
        /\ ~localSatelliteObjects[i].trackVisible

\* C25: once the filters have been constant for FadeTicks ticks, the track
\* opacity of every entity that matches them is within 0.01 of 1, and that of
\* every entity that does not is within 0.01 of 0.
C25_TrackOpacityTarget ==
  stableTicks >= FadeTicks =>
    \A i \in Registry :
      LET sat == localSatelliteObjects[i]
          match == /\ C2_orbitMatch(sat, currentOrbitFilter)
                   /\ C2_typeMatch(sat, currentTypeFilter)
      IN sat.hasTrack =>
           Abs(sat.trackOpacity - (IF match THEN OpScale ELSE 0)) <= OpScale \div 100

\* C26: the default colour of an entity is the ISS colour if and only if the
\* reference table gives its catalog ID the category ISS, and the other
\* default colour otherwise.
C26_DefaultColorByCategory ==
  \A i \in Registry :
    LET sat == localSatelliteObjects[i]
    IN /\ sat.defaultColor = DEFAULT_COLOR_ISS <=>
            getSatelliteDetails(sat.satrec.satnum).type = "ISS"
       /\ sat.defaultColor \in {DEFAULT_COLOR_ISS, DEFAULT_COLOR_OTHER}

\* The points C27 gives a track: the offsets of the instants at which
\* propagation gave a position, in time order.
C27_Expected ==
  LET Ok(k) == trackRun.outcomes[k] = "ok"
      ks == SelectSeq([k \in 1..91 |-> k], Ok)
  IN [n \in DOMAIN ks |-> (ks[n] - 46) * 60]

\* C27: calculateTrackPoints returns one point for each of the 91 instants
\* from 45 minutes before to 45 minutes after the start, 60 seconds apart, at
\* which propagation gave a position, in time order, whatever fails at the
\* other instants; init creates a track line if and only if there are at
\* least 2 points; and no tick changes the points or the presence of the line.
C27_TrackComputation ==
  /\ [](/\ trackRun.at = "done" => trackRun.points = C27_Expected
        /\ fetchedTLEs = "list" =>
             /\ localSatelliteObjects[1].hasTrack <=> Len(trackRun.points) >= 2
             /\ <<"trackGeometry", 1>> \in created <=> Len(trackRun.points) >= 2)
  /\ [][trackRun.at = "done" =>
          /\ trackRun' = trackRun
          /\ fetchedTLEs = "list" =>
               /\ localSatelliteObjects'[1].hasTrack = localSatelliteObjects[1].hasTrack
               /\ created' = created]_vars

\* A track of exactly 2 points, after instants at which the propagator threw
\* and gave no position, with its line still there after MaxTicks ticks.
C27_Witness ==
  /\ trackRun.at = "done"
  /\ Len(trackRun.points) = 2
  /\ \E j, k \in 1..91 :
       /\ j < k /\ k < 90
       /\ trackRun.outcomes[j] = "throw" /\ trackRun.outcomes[k] = "nopos"
  /\ trackRun.outcomes[90] = "ok"
  /\ ticks = MaxTicks /\ pc = "idle"
  /\ localSatelliteObjects[1].hasTrack

\* The order of the risk levels.
C28_Rank(level) ==
  CASE level = "None" -> 0
    [] level = "Low" -> 1
    [] level = "Moderate" -> 2
    [] level = "High" -> 3
    [] level = "Severe" -> 4

\* C28: the FLR block, the SEP block and the CME block each leave
\* satelliteRisk at least as high as they found it.
C28_RiskNeverDecreases ==
  [][weather.at \in {"flr", "sep", "cme"} =>
       C28_Rank(weather'.satelliteRisk) >= C28_Rank(weather.satelliteRisk)]_vars

\* C29: when the hover label is shown and the pointer has just hit the marker
\* of an entity of the label's name, the label is at that very entity.
C29_HoverLabelIdentity ==
  (/\ labelInfo # NoLabel
   /\ lastPick.op = "move" /\ lastPick.hit # 0
   /\ localSatelliteObjects[lastPick.hit].name = labelInfo.name) =>
    labelInfo.at = lastPick.hit

\* The flags and opacities of an entity that C30 gives to the tick.
C30_Flags(sat) ==
  <<sat.isVisible, sat.opacity, sat.trackOpacity, sat.meshVisible, sat.trackVisible>>

\* C30: a step taken between two ticks on a live registry (a filter change,
\* a pointer move, a pointer leave, a click) leaves the visibility flags and
\* the opacities of every entity as they were.
C30_FlagsChangeOnlyInTick ==
  [][(pc = "idle" /\ pc' = "idle" /\ Registry # {} /\ Registry' = Registry) =>
       \A i \in Registry :
         C30_Flags(localSatelliteObjects'[i]) = C30_Flags(localSatelliteObjects[i])]_vars

====
